---------------------------- MODULE Spec2Model ----------------------------
(***************************************************************************)
(* A model of echoregions: the Echoview region (EVR) and line (EVL) file   *)
(* parsers of echoregions/convert and the 2D <-> 3D mask conversion that   *)
(* echoregions/tests/test_r2d.py exercises.                                *)
(*                                                                         *)
(* Python values are records [t |-> <type>, v |-> <payload>]: a str holds  *)
(* its text, a number holds an integer, None holds nothing.  A float that  *)
(* is read back from text is held in hundredths (see ParseFloat).          *)
(***************************************************************************)
EXTENDS Integers, Sequences, FiniteSets, TLC

VARIABLES
    \* ---- Region2DParser: the depth bounds and the last call made on them
    min_depth,      \* self._min_depth
    max_depth,      \* self._max_depth
    raw_range,      \* self._raw_range
    call,           \* the last call on the parser: [op, val, exc, ret]
    \* ---- the mask conversion (er.convert_mask_2d_to_3d / _3d_to_2d)
    M,              \* the labeled 2D raster handed to convert_mask_2d_to_3d
    mask_3d_ds,     \* the one-hot stack: [mask_dictionary, mask_3d]
    mask_2d_da,     \* the raster convert_mask_3d_to_2d returned
    mask_exc,       \* the exception convert_mask_3d_to_2d raised
    second_mask_3d_ds,  \* the stack of the second convert_mask_2d_to_3d
    mask_pc,        \* "2d" -> "3d" -> "back" -> "again"
    mask_edits,     \* how many times the test edited a plane of the stack
    \* ---- a parse_files call of a LineParser or a Region2DParser
    format,         \* self.format: "EVL" or "EVR"
    replace_nan_range_value,    \* the argument of LineParser._parse
    convert_range_edges,        \* the argument of Region2DParser._parse
    fid,            \* the lines _parse has read from the open file
    frame,          \* the frame of _parse: its position and its locals
    output_data,    \* self.output_data
    \* ---- the exports of output_data
    csv_file,       \* the CSV file to_csv wrote
    json_file       \* the JSON file to_json wrote

depthVars == <<min_depth, max_depth, raw_range, call>>
maskVars  == <<M, mask_3d_ds, mask_2d_da, second_mask_3d_ds, mask_exc, mask_pc,
               mask_edits>>
parseVars == <<format, replace_nan_range_value, convert_range_edges, fid,
               frame, output_data>>
fileVars  == <<csv_file, json_file>>
vars      == <<depthVars, maskVars, parseVars, fileVars>>
notDepth  == <<maskVars, parseVars, fileVars>>
notMask   == <<depthVars, parseVars, fileVars>>
notParse  == <<depthVars, maskVars, fileVars>>

---------------------------------------------------------------------------
\* Python values

None     == [t |-> "None", v |-> 0]
Num(n)   == [t |-> "num", v |-> n]
Str(s)   == [t |-> "str", v |-> s]
IsNone(x) == x.t = "None"

---------------------------------------------------------------------------
\* Bounds of the model

NCells     == 4     \* cells of a raster, indexed in row-major order
MaxEdits   == 1     \* plane edits a test makes on a stack
MaxDepthVal == 3    \* depth values are 1..MaxDepthVal
MaxPoints  == 2     \* the largest point count a line file declares
MaxRegions == 2     \* the largest region count a region file declares

---------------------------------------------------------------------------
\* The mask conversion.  A raster is a sequence over the cells in row-major
\* order; a cell holds a label or NaN.

NaN        == -1
Labels     == {5, 8, 11}
Cells      == 1..NCells
Rasters    == [Cells -> Labels \cup {NaN}]
NoRaster   == <<>>
AllFalse   == [c \in Cells |-> FALSE]

\* The distinct labels of the cells c..NCells that are not in seen, in the
\* order of their first appearance.
RECURSIVE FirstAppearance(_, _, _)
FirstAppearance(R, c, seen) ==
    IF c > NCells THEN <<>>
    ELSE IF R[c] = NaN \/ R[c] \in seen THEN FirstAppearance(R, c + 1, seen)
    ELSE <<R[c]>> \o FirstAppearance(R, c + 1, seen \cup {R[c]})

\* to_one_hot with its labels in ascending order instead of the order of
\* their first appearance.
RECURSIVE Ascending(_)
Ascending(set) ==
    IF set = {} THEN <<>>
    ELSE LET least == CHOOSE x \in set : \A y \in set : x <= y
         IN  <<least>> \o Ascending(set \ {least})
convert_mask_2d_to_3d_ascending(R) ==
    LET labels == Ascending({R[c] : c \in Cells} \ {NaN})
    IN  IF labels = <<>>
        THEN [mask_dictionary |-> <<>>, mask_3d |-> <<AllFalse>>]
        ELSE [mask_dictionary |-> labels,
              mask_3d |-> [i \in 1..Len(labels) |->
                              [c \in Cells |-> R[c] = labels[i]]]]

\* to_one_hot that gives the all-empty raster no plane at all.
convert_mask_2d_to_3d_no_plane(R) ==
    LET labels == FirstAppearance(R, 1, {})
    IN  [mask_dictionary |-> labels,
         mask_3d |-> [i \in 1..Len(labels) |-> [c \in Cells |-> R[c] = labels[i]]]]

\* to_one_hot: one plane per distinct label, plane[cell] = (raster[cell] =
\* label); the all-empty raster gives no label and one all-false plane.
convert_mask_2d_to_3d(R) ==
    LET labels == FirstAppearance(R, 1, {})
    IN  IF labels = <<>>
        THEN [mask_dictionary |-> <<>>, mask_3d |-> <<AllFalse>>]
        ELSE [mask_dictionary |-> labels,
              mask_3d |-> [i \in 1..Len(labels) |->
                              [c \in Cells |-> R[c] = labels[i]]]]

\* The planes of S that are true at cell c.
TruePlanes(S, c) == {i \in 1..Len(S.mask_dictionary) : S.mask_3d[i][c]}
Overlap(S) == \E c \in Cells : Cardinality(TruePlanes(S, c)) > 1

\* from_one_hot without its overlap check: the last true plane wins.
convert_mask_3d_to_2d_no_check(S) ==
    [exc |-> "none",
     ret |-> [c \in Cells |->
                IF TruePlanes(S, c) = {} THEN NaN
                ELSE S.mask_dictionary[CHOOSE i \in TruePlanes(S, c) :
                                         \A j \in TruePlanes(S, c) : j <= i]]]

\* from_one_hot that writes 0 where no plane is true.
convert_mask_3d_to_2d_zero_fill(S) ==
    IF Overlap(S) THEN [exc |-> "ValueError", ret |-> NoRaster]
    ELSE [exc |-> "none",
          ret |-> [c \in Cells |->
                     IF TruePlanes(S, c) = {} THEN 0
                     ELSE S.mask_dictionary[CHOOSE i \in TruePlanes(S, c) : TRUE]]]

\* from_one_hot: the label of the one true plane, NaN where none is true;
\* ValueError when a cell is true in more than one plane.
convert_mask_3d_to_2d(S) ==
    IF Overlap(S) THEN [exc |-> "ValueError", ret |-> NoRaster]
    ELSE [exc |-> "none",
          ret |-> [c \in Cells |->
                     IF TruePlanes(S, c) = {} THEN NaN
                     ELSE S.mask_dictionary[CHOOSE i \in TruePlanes(S, c) : TRUE]]]

NoStack == [mask_dictionary |-> <<>>, mask_3d |-> <<>>]

\* No mask conversion is under way.
MaskIdle ==
    /\ M = NoRaster
    /\ mask_3d_ds = NoStack
    /\ mask_2d_da = NoRaster
    /\ second_mask_3d_ds = NoStack
    /\ mask_exc = "none"
    /\ mask_pc = "idle"
    /\ mask_edits = 0

MaskInit ==
    /\ M \in Rasters
    /\ mask_3d_ds = NoStack
    /\ mask_2d_da = NoRaster
    /\ second_mask_3d_ds = NoStack
    /\ mask_exc = "none"
    /\ mask_pc = "2d"
    /\ mask_edits = 0

\* mask_3d_ds = er.convert_mask_2d_to_3d(M)
Convert2dTo3d ==
    /\ mask_pc = "2d"
    /\ mask_3d_ds' = convert_mask_2d_to_3d(M)
    /\ mask_pc' = "3d"
    /\ UNCHANGED <<M, mask_2d_da, second_mask_3d_ds, mask_exc, mask_edits>>
    /\ UNCHANGED notMask

\* mask_3d_ds.mask_3d[i] = xr.ones_like(mask_3d_ds.mask_3d[i])
SetPlaneOnes ==
    /\ mask_pc = "3d"
    /\ mask_edits < MaxEdits
    /\ \E i \in 1..Len(mask_3d_ds.mask_dictionary) :
         mask_3d_ds' = [mask_3d_ds EXCEPT !.mask_3d[i] = [c \in Cells |-> TRUE]]
    /\ mask_edits' = mask_edits + 1
    /\ UNCHANGED <<M, mask_2d_da, second_mask_3d_ds, mask_exc, mask_pc>>
    /\ UNCHANGED notMask

\* one cell of one plane of the stack is overwritten
SetPlaneCell ==
    /\ mask_pc = "3d"
    /\ mask_edits < MaxEdits
    /\ \E i \in 1..Len(mask_3d_ds.mask_dictionary), c \in Cells, b \in BOOLEAN :
         /\ mask_3d_ds.mask_3d[i][c] # b
         /\ mask_3d_ds' = [mask_3d_ds EXCEPT !.mask_3d[i][c] = b]
    /\ mask_edits' = mask_edits + 1
    /\ UNCHANGED <<M, mask_2d_da, second_mask_3d_ds, mask_exc, mask_pc>>
    /\ UNCHANGED notMask

\* mask_2d_da = er.convert_mask_3d_to_2d(mask_3d_ds)
Convert3dTo2d ==
    /\ mask_pc = "3d"
    /\ LET r == convert_mask_3d_to_2d(mask_3d_ds)
       IN  /\ mask_2d_da' = r.ret
           /\ mask_exc' = r.exc
    /\ mask_pc' = "back"
    /\ UNCHANGED <<M, mask_3d_ds, second_mask_3d_ds, mask_edits>>
    /\ UNCHANGED notMask

\* second_mask_3d_ds = er.convert_mask_2d_to_3d(mask_2d_da)
Convert2dTo3dAgain ==
    /\ mask_pc = "back"
    /\ mask_exc = "none"
    /\ second_mask_3d_ds' = convert_mask_2d_to_3d(mask_2d_da)
    /\ mask_pc' = "again"
    /\ UNCHANGED <<M, mask_3d_ds, mask_2d_da, mask_exc, mask_edits>>
    /\ UNCHANGED notMask

---------------------------------------------------------------------------
\* Region2DParser: the depth bounds

DepthVals == 1..MaxDepthVal
NoRet     == <<>>
NoCall    == [op |-> "none", val |-> None, exc |-> "none", ret |-> NoRet]

NoProfile == [lo |-> None, hi |-> None]

\* Region2DParser.__init__
DepthInit ==
    /\ min_depth = None
    /\ max_depth = None
    /\ raw_range = NoProfile
    /\ call = NoCall

\* The max_depth setter that compares with < instead of <=.
max_depth_setter_strict(lo, val) ==
    IF ~IsNone(lo) /\ IsNone(val) THEN [exc |-> "TypeError", set |-> FALSE]
    ELSE IF ~IsNone(lo) /\ val.v < lo.v THEN [exc |-> "ValueError", set |-> FALSE]
    ELSE [exc |-> "none", set |-> TRUE]

\* max_depth.setter: lo is self._min_depth.  `val <= None` and `None <= x`
\* raise TypeError.
max_depth_setter(lo, val) ==
    IF ~IsNone(lo) /\ IsNone(val) THEN [exc |-> "TypeError", set |-> FALSE]
    ELSE IF ~IsNone(lo) /\ val.v <= lo.v THEN [exc |-> "ValueError", set |-> FALSE]
    ELSE [exc |-> "none", set |-> TRUE]

\* The min_depth setter that assigns before it checks.
min_depth_setter_assign_first(hi, val) ==
    IF ~IsNone(hi) /\ IsNone(val) THEN [exc |-> "TypeError", set |-> FALSE]
    ELSE IF ~IsNone(hi) /\ val.v >= hi.v THEN [exc |-> "ValueError", set |-> TRUE]
    ELSE [exc |-> "none", set |-> TRUE]

\* min_depth.setter: hi is self._max_depth.
min_depth_setter(hi, val) ==
    IF ~IsNone(hi) /\ IsNone(val) THEN [exc |-> "TypeError", set |-> FALSE]
    ELSE IF ~IsNone(hi) /\ val.v >= hi.v THEN [exc |-> "ValueError", set |-> FALSE]
    ELSE [exc |-> "none", set |-> TRUE]

SetterVals == {Num(n) : n \in DepthVals} \cup {None}

\* parser.max_depth = val
SetMaxDepth ==
    \E val \in SetterVals :
       LET r == max_depth_setter(min_depth, val)
       IN  /\ max_depth' = IF r.set THEN val ELSE max_depth
           /\ call' = [op |-> "max_depth", val |-> val, exc |-> r.exc,
                       ret |-> NoRet]
           /\ UNCHANGED <<min_depth, raw_range>>
           /\ UNCHANGED notDepth

\* parser.min_depth = val
SetMinDepth ==
    \E val \in SetterVals :
       LET r == min_depth_setter(max_depth, val)
       IN  /\ min_depth' = IF r.set THEN val ELSE min_depth
           /\ call' = [op |-> "min_depth", val |-> val, exc |-> r.exc,
                       ret |-> NoRet]
           /\ UNCHANGED <<max_depth, raw_range>>
           /\ UNCHANGED notDepth

\* The depth profile echopype computes from a valid raw file: its minimum
\* and maximum.
Profiles == {[lo |-> Num(a), hi |-> Num(b)] : a \in DepthVals, b \in DepthVals}
ValidProfiles == {p \in Profiles : p.lo.v <= p.hi.v}

\* set_range_edge_from_raw(raw): raw is None, not a raw file, or a raw file
\* with profile p.  The max_depth setter runs first, then the min_depth
\* setter; an exception of either ends the call.
SetRangeEdgeFromRaw ==
    /\ \/ /\ call' = [op |-> "set_range_edge_from_raw", val |-> None,
                      exc |-> "none", ret |-> NoRet]
          /\ UNCHANGED <<min_depth, max_depth, raw_range>>
       \/ /\ call' = [op |-> "set_range_edge_from_raw", val |-> Str("x.txt"),
                      exc |-> "ValueError", ret |-> NoRet]
          /\ UNCHANGED <<min_depth, max_depth, raw_range>>
       \/ \E p \in ValidProfiles :
            LET r1 == max_depth_setter(min_depth, p.hi)
                hi1 == IF r1.set THEN p.hi ELSE max_depth
                r2 == min_depth_setter(hi1, p.lo)
            IN  /\ raw_range' = p
                /\ max_depth' = hi1
                /\ min_depth' = IF r1.exc = "none" /\ r2.set THEN p.lo
                                ELSE min_depth
                /\ call' = [op |-> "set_range_edge_from_raw",
                            val |-> Str("x.raw"),
                            exc |-> IF r1.exc # "none" THEN r1.exc ELSE r2.exc,
                            ret |-> NoRet]
    /\ UNCHANGED notDepth


---------------------------------------------------------------------------
\* Files.  A line of a file is the sequence of its whitespace-separated
\* tokens; the blank line is <<>>.

EmptyDict == [k \in {} |-> 0]
SetKey(d, k, v) == (k :> v) @@ d        \* d[k] = v

Digits == <<"0", "1", "2", "3", "4", "5", "6", "7", "8", "9">>
DigitTok(n) == Digits[n + 1]
IsInt(s) == \E n \in 1..Len(Digits) : Digits[n] = s
\* int(s), for a string int() accepts
ToInt(s) == (CHOOSE n \in 1..Len(Digits) : Digits[n] = s) - 1

\* The line as text: its tokens joined by one space.
RECURSIVE Join(_)
Join(line) ==
    IF line = <<>> THEN ""
    ELSE IF Len(line) = 1 THEN line[1]
    ELSE line[1] \o " " \o Join(Tail(line))

\* EvParserBase.read_line(fid, split) on the next line of the file
read_line(line, split) == IF split THEN line ELSE Join(line)

Front(s) == SubSeq(s, 1, Len(s) - 1)
Last(s)  == s[Len(s)]

NoFrame ==
    [pc |-> "new", file_metadata |-> EmptyDict, n |-> 0, r |-> 0, rid |-> "",
     left |-> 0, acc |-> <<>>, points |-> <<>>, regions |-> EmptyDict,
     exc |-> "none", returned |-> FALSE]

\* An exception leaves _parse.
Raise(f, e) == [f EXCEPT !.pc = "failed", !.exc = e]
\* _parse returns (file_metadata, points) or (file_metadata, regions).
Return(f) == [f EXCEPT !.pc = "done", !.returned = TRUE]

\* filetype, file_format_number, echoview_version = self.read_line(fid, True)
parse_header(f, line) ==
    LET toks == read_line(line, TRUE)
    IN  IF Len(toks) # 3 THEN Raise(f, "ValueError")
        ELSE [f EXCEPT !.file_metadata =
                          [filetype |-> toks[1], file_format_number |-> toks[2],
                           echoview_version |-> toks[3]],
                       !.pc = "count"]

---------------------------------------------------------------------------
\* LineParser._parse

EvlSentinel == "-10000.990000"

\* n_points = int(self.read_line(fid)); an empty range ends the loop at once.
evl_count(f, line) ==
    LET s == read_line(line, FALSE)
    IN  IF ~IsInt(s) THEN Raise(f, "ValueError")
        ELSE IF ToInt(s) = 0 THEN Return([f EXCEPT !.n = 0])
        ELSE [f EXCEPT !.n = ToInt(s), !.pc = "point"]

\* The loop body that replaces the depth when the replacement is truthy.
evl_point_truthy(f, line, repl) ==
    LET toks == read_line(line, TRUE)
    IN  IF Len(toks) # 4 THEN Raise(f, "ValueError")
        ELSE LET depth == IF ~IsNone(repl) /\ repl.v # 0 /\ toks[3] = EvlSentinel
                          THEN repl ELSE Str(toks[3])
                 pts == Append(f.points,
                               [x |-> "D" \o toks[1] \o "T" \o toks[2],
                                y |-> depth, status |-> toks[4]])
             IN  IF Len(pts) = f.n THEN Return([f EXCEPT !.points = pts])
                 ELSE [f EXCEPT !.points = pts]

\* The loop body that stops at a malformed record and returns what it has.
evl_point_lenient(f, line, repl) ==
    LET toks == read_line(line, TRUE)
    IN  IF Len(toks) # 4 THEN Return(f)
        ELSE LET depth == IF ~IsNone(repl) /\ toks[3] = EvlSentinel
                          THEN repl ELSE Str(toks[3])
                 pts == Append(f.points,
                               [x |-> "D" \o toks[1] \o "T" \o toks[2],
                                y |-> depth, status |-> toks[4]])
             IN  IF Len(pts) = f.n THEN Return([f EXCEPT !.points = pts])
                 ELSE [f EXCEPT !.points = pts]

\* One pass of the loop over range(n_points): the four-name unpacking
\* raises ValueError unless the record has four tokens.
evl_point(f, line, repl) ==
    LET toks == read_line(line, TRUE)
    IN  IF Len(toks) # 4 THEN Raise(f, "ValueError")
        ELSE LET depth == IF ~IsNone(repl) /\ toks[3] = EvlSentinel
                          THEN repl ELSE Str(toks[3])
                 pts == Append(f.points,
                               [x |-> "D" \o toks[1] \o "T" \o toks[2],
                                y |-> depth, status |-> toks[4]])
             IN  IF Len(pts) = f.n THEN Return([f EXCEPT !.points = pts])
                 ELSE [f EXCEPT !.points = pts]

\* Lines a line file may hold
Dates == <<"20170625", "20170626">>
Times == <<"1539223320", "1539233320", "1539243320">>
EvlHeaderLines == {<<"EVL", "7", "1.0.0">>, <<"EVL", "7">>}
EvlCountLines  == {<<DigitTok(n)>> : n \in 0..MaxPoints} \cup {<<"x">>}
EvlDepthTokens == {EvlSentinel, "-10000.99", "5.0"}
EvlPointLines  ==
    {<<Dates[1], t, y, s>> : t \in {Times[1], Times[2]}, y \in EvlDepthTokens,
                             s \in {"1", "3"}}
    \cup {<<Dates[1], Times[1], EvlSentinel>>}
Replacements   == {None, Num(0), Num(7)}

---------------------------------------------------------------------------
\* Region2DParser._parse

MaxSentinel == "9999.9900000000"
MinSentinel == "-9999.9900000000"
Float(n) == [t |-> "float", v |-> n * 100]      \* float(n), in hundredths

\* The keys of the dict of a parsed region
RegionKeys == {"metadata", "notes", "detection_settings", "points"}

\* regions[rid] of the defaultdict(dict): the dict of rid, made when absent
RegionOf(regions, rid) ==
    IF rid \in DOMAIN regions THEN regions[rid] ELSE EmptyDict

\* regions[rid][key] = v
SetRegionKey(f, key, v) ==
    [f EXCEPT !.regions = SetKey(f.regions, f.rid,
                                 SetKey(RegionOf(f.regions, f.rid), key, v))]

\* regions[rid]['metadata'][key] = v
SetMetadataKey(f, key, v) ==
    SetRegionKey(f, "metadata", SetKey(f.regions[f.rid].metadata, key, v))

_region_metadata_to_dict(line) ==
    [structure_version |-> line[1],
     point_count |-> line[2],
     selected |-> line[4],
     creation_type |-> line[5],
     dummy |-> line[6],
     bounding_rectangle_calculated |-> line[7],
     bounding_rectangle_left_x |-> "D" \o line[8] \o "T" \o line[9],
     bounding_rectangle_top_y |-> line[10],
     bounding_rectangle_right_x |-> "D" \o line[11] \o "T" \o line[12],
     bounding_rectangle_bottom_y |-> line[13]]

\* The point whose depth is compared with the upper range edge by value
\* rather than letter for letter.
PointAt_by_value(line, idx, cre, lo, hi) ==
    LET y == line[idx + 2]
    IN  <<Str("D" \o line[idx] \o "T" \o line[idx + 1]),
          IF cre /\ y \in {MaxSentinel, "9999.99"} /\ ~IsNone(hi) THEN Float(hi.v)
          ELSE IF cre /\ y = MinSentinel /\ ~IsNone(lo) THEN Float(lo.v)
          ELSE Str(y)>>

\* The point that starts at token idx (from 1) of the points line.
PointAt(line, idx, cre, lo, hi) ==
    LET y == line[idx + 2]
    IN  <<Str("D" \o line[idx] \o "T" \o line[idx + 1]),
          IF cre /\ y = MaxSentinel /\ ~IsNone(hi) THEN Float(hi.v)
          ELSE IF cre /\ y = MinSentinel /\ ~IsNone(lo) THEN Float(lo.v)
          ELSE Str(y)>>

\* _points_to_dict(line): a point for every idx of range(0, len(line), 3);
\* line[idx + 1] or line[idx + 2] past the end raises IndexError.
_points_to_dict(line, cre, lo, hi) ==
    IF Len(line) % 3 # 0 THEN [exc |-> "IndexError", points |-> <<>>]
    ELSE [exc |-> "none",
          points |-> [i \in 1..(Len(line) \div 3) |->
                        PointAt(line, 3 * (i - 1) + 1, cre, lo, hi)]]

\* n_regions = int(self.read_line(fid))
evr_count(f, line) ==
    LET s == read_line(line, FALSE)
    IN  IF ~IsInt(s) THEN Raise(f, "ValueError")
        ELSE IF ToInt(s) = 0 THEN Return([f EXCEPT !.n = 0])
        ELSE [f EXCEPT !.n = ToInt(s), !.pc = "blank"]

\* fid.readline(): the line between two regions, whatever it holds
evr_blank(f, line) == [f EXCEPT !.pc = "region_metadata"]

\* region_metadata = self.read_line(fid, True); rid = region_metadata[2];
\* regions[rid]['metadata'] = _region_metadata_to_dict(region_metadata)
evr_region_metadata(f, line) ==
    LET toks == read_line(line, TRUE)
    IN  IF Len(toks) < 13 THEN Raise(f, "IndexError")
        ELSE [SetRegionKey([f EXCEPT !.rid = toks[3]], "metadata",
                           _region_metadata_to_dict(toks))
                EXCEPT !.pc = "n_note_lines"]

\* n = int(self.read_line(fid)) before a list of n raw lines that is stored
\* under key once all n are read; next is the position after the list.
CountLines(f, line, key, each, next) ==
    LET s == read_line(line, FALSE)
    IN  IF ~IsInt(s) THEN Raise(f, "ValueError")
        ELSE IF ToInt(s) = 0 THEN [SetRegionKey(f, key, <<>>) EXCEPT !.pc = next]
        ELSE [f EXCEPT !.left = ToInt(s), !.acc = <<>>, !.pc = each]

\* One self.read_line(fid) of the list comprehension.
ListLine(f, line, key, next) ==
    LET acc == Append(f.acc, read_line(line, FALSE))
    IN  IF f.left = 1
        THEN [SetRegionKey(f, key, acc) EXCEPT !.left = 0, !.acc = <<>>, !.pc = next]
        ELSE [f EXCEPT !.left = f.left - 1, !.acc = acc]

evr_n_note_lines(f, line) ==
    CountLines(f, line, "notes", "note", "n_detection_setting_lines")
evr_note(f, line) == ListLine(f, line, "notes", "n_detection_setting_lines")
evr_n_detection_setting_lines(f, line) ==
    CountLines(f, line, "detection_settings", "detection_setting", "classification")
evr_detection_setting(f, line) ==
    ListLine(f, line, "detection_settings", "classification")

\* regions[rid]['metadata']['region_classification'] = self.read_line(fid)
evr_classification(f, line) ==
    [SetMetadataKey(f, "region_classification", read_line(line, FALSE))
       EXCEPT !.pc = "points"]

\* The reading of the points line that takes the region type from the last
\* token without popping it.
evr_points_no_pop(f, line, cre, lo, hi) ==
    LET toks == read_line(line, TRUE)
    IN  IF toks = <<>> THEN Raise(f, "IndexError")
        ELSE LET typed == SetMetadataKey(f, "type", Last(toks))
                 pts == _points_to_dict(toks, cre, lo, hi)
             IN  IF pts.exc # "none" THEN Raise(typed, pts.exc)
                 ELSE [SetRegionKey(typed, "points", pts.points)
                         EXCEPT !.pc = "name"]

\* points_line = self.read_line(fid, True); the type is popped off its end
\* (IndexError on an empty list) and the rest goes to _points_to_dict.
evr_points(f, line, cre, lo, hi) ==
    LET toks == read_line(line, TRUE)
    IN  IF toks = <<>> THEN Raise(f, "IndexError")
        ELSE LET typed == SetMetadataKey(f, "type", Last(toks))
                 pts == _points_to_dict(Front(toks), cre, lo, hi)
             IN  IF pts.exc # "none" THEN Raise(typed, pts.exc)
                 ELSE [SetRegionKey(typed, "points", pts.points)
                         EXCEPT !.pc = "name"]

\* regions[rid]['metadata']['name'] = self.read_line(fid), the end of one
\* pass of the loop over range(n_regions)
evr_name(f, line) ==
    LET named == SetMetadataKey(f, "name", read_line(line, FALSE))
    IN  IF f.r + 1 = f.n THEN Return([named EXCEPT !.r = f.r + 1])
        ELSE [named EXCEPT !.r = f.r + 1, !.pc = "blank"]

\* Lines a region file may hold
EvrHeaderLines == {<<"EVRG", "7", "10.0.270.37090">>, <<"EVRG", "7">>}
EvrCountLines  == {<<DigitTok(n)>> : n \in 0..MaxRegions} \cup {<<"x">>}
RegionMetadataLine(rid, point_count) ==
    <<"13", point_count, rid, "0", "2", "-1", "1", Dates[1], Times[1], "9.2",
      Dates[1], Times[2], "102.2">>
RegionMetadataLines ==
    {RegionMetadataLine("1", "1"), RegionMetadataLine("2", "2"),
     Front(RegionMetadataLine("1", "1"))}
ListCountLines == {<<"0">>, <<"1">>, <<"x">>}
NoteLines      == {<<"Chicken", "nugget">>}
ClassificationLines == {<<"Unclassified">>}
NameLines      == {<<"Region1">>}
\* The tokens of the points whose depths are ys, one after the other.
RECURSIVE PointTokens(_, _)
PointTokens(ys, i) ==
    IF i > Len(ys) THEN <<>>
    ELSE <<Dates[1], Times[i], ys[i]>> \o PointTokens(ys, i + 1)
DepthSeqs ==
    {<<MaxSentinel>>, <<"5.0">>, <<MinSentinel, "9999.99">>, <<"5.0", MaxSentinel>>}
PointsLines ==
    {PointTokens(ys, 1) \o <<"1">> : ys \in DepthSeqs}
    \cup {<<Dates[1], Times[1], "5.0", Dates[1], "1">>, <<>>}

---------------------------------------------------------------------------
\* A parse_files call, one read of _parse at a time

fname == "x1"

ParserInit ==
    /\ format \in {"EVL", "EVR"}
    /\ replace_nan_range_value = None
    /\ convert_range_edges = FALSE
    /\ fid = <<>>
    /\ frame = NoFrame
    /\ output_data = EmptyDict

\* The bounds a Region2DParser may hold when parse_files is called.
ParseBounds ==
    /\ min_depth \in {None, Num(1)}
    /\ max_depth \in {None, Num(MaxDepthVal)}
    /\ format = "EVL" => (IsNone(min_depth) /\ IsNone(max_depth))
    /\ raw_range = NoProfile
    /\ call = NoCall

\* _parse reads line and moves to frame f.
Consume(line, f) ==
    /\ frame' = f
    /\ fid' = Append(fid, line)
    /\ UNCHANGED <<format, replace_nan_range_value, convert_range_edges,
                   output_data>>
    /\ UNCHANGED notParse

\* parse_files opens the file and calls self._parse(fid, **kwargs).
ParseFiles ==
    /\ frame.pc = "new"
    /\ \/ /\ format = "EVL"
          /\ replace_nan_range_value' \in Replacements
          /\ UNCHANGED convert_range_edges
       \/ /\ format = "EVR"
          /\ convert_range_edges' \in BOOLEAN
          /\ UNCHANGED replace_nan_range_value
    /\ frame' = [frame EXCEPT !.pc = "header"]
    /\ UNCHANGED <<format, fid, output_data>>
    /\ UNCHANGED notParse

ReadHeader ==
    /\ frame.pc = "header"
    /\ \E line \in IF format = "EVL" THEN EvlHeaderLines ELSE EvrHeaderLines :
         Consume(line, parse_header(frame, line))

EvlReadCount ==
    /\ format = "EVL" /\ frame.pc = "count"
    /\ \E line \in EvlCountLines : Consume(line, evl_count(frame, line))

EvlReadPoint ==
    /\ frame.pc = "point"
    /\ \E line \in EvlPointLines :
         Consume(line, evl_point(frame, line, replace_nan_range_value))

EvrReadCount ==
    /\ format = "EVR" /\ frame.pc = "count"
    /\ \E line \in EvrCountLines : Consume(line, evr_count(frame, line))

EvrReadBlank ==
    /\ frame.pc = "blank"
    /\ Consume(<<>>, evr_blank(frame, <<>>))

EvrReadRegionMetadata ==
    /\ frame.pc = "region_metadata"
    /\ \E line \in RegionMetadataLines :
         Consume(line, evr_region_metadata(frame, line))

EvrReadNoteCount ==
    /\ frame.pc = "n_note_lines"
    /\ \E line \in ListCountLines : Consume(line, evr_n_note_lines(frame, line))

EvrReadNote ==
    /\ frame.pc = "note"
    /\ \E line \in NoteLines : Consume(line, evr_note(frame, line))

EvrReadDetectionCount ==
    /\ frame.pc = "n_detection_setting_lines"
    /\ \E line \in ListCountLines :
         Consume(line, evr_n_detection_setting_lines(frame, line))

EvrReadDetectionSetting ==
    /\ frame.pc = "detection_setting"
    /\ \E line \in NoteLines : Consume(line, evr_detection_setting(frame, line))

EvrReadClassification ==
    /\ frame.pc = "classification"
    /\ \E line \in ClassificationLines :
         Consume(line, evr_classification(frame, line))

EvrReadPoints ==
    /\ frame.pc = "points"
    /\ \E line \in PointsLines :
         Consume(line, evr_points(frame, line, convert_range_edges,
                                  min_depth, max_depth))

EvrReadName ==
    /\ frame.pc = "name"
    /\ \E line \in NameLines : Consume(line, evr_name(frame, line))

\* The file ends where _parse reads on: read_line raises.  (At the line
\* between two regions fid.readline() returns '' and the next read_line
\* raises.)
ReadAtEof ==
    /\ frame.pc \notin {"new", "done", "failed", "stored"}
    /\ frame' = Raise(frame, "TruncatedFileError")
    /\ UNCHANGED <<format, replace_nan_range_value, convert_range_edges, fid,
                   output_data>>
    /\ UNCHANGED notParse

\* What parse_files stores for the file once _parse has returned.
Parsed(f) ==
    IF format = "EVL" THEN [metadata |-> f.file_metadata, points |-> f.points]
    ELSE [metadata |-> f.file_metadata, regions |-> f.regions]

\* parse_files stores what _parse returned under the file's name.
StoreOutput ==
    /\ frame.pc = "done" /\ frame.returned
    /\ output_data' = SetKey(output_data, fname, Parsed(frame))
    /\ frame' = [frame EXCEPT !.pc = "stored"]
    /\ UNCHANGED <<format, replace_nan_range_value, convert_range_edges, fid>>
    /\ UNCHANGED notParse

Next ==
    \/ ParseFiles \/ ReadHeader \/ EvlReadCount \/ EvlReadPoint
    \/ EvrReadCount \/ EvrReadBlank \/ EvrReadRegionMetadata
    \/ EvrReadNoteCount \/ EvrReadNote \/ EvrReadDetectionCount
    \/ EvrReadDetectionSetting \/ EvrReadClassification \/ EvrReadPoints
    \/ EvrReadName \/ ReadAtEof \/ StoreOutput

---------------------------------------------------------------------------
\* A whole parse_files call of a Region2DParser, the exports and
\* get_points_from_region

\* One read of Region2DParser._parse, by its position
EvrStep(f, line, cre, lo, hi) ==
    CASE f.pc = "header" -> parse_header(f, line)
      [] f.pc = "count" -> evr_count(f, line)
      [] f.pc = "blank" -> evr_blank(f, line)
      [] f.pc = "region_metadata" -> evr_region_metadata(f, line)
      [] f.pc = "n_note_lines" -> evr_n_note_lines(f, line)
      [] f.pc = "note" -> evr_note(f, line)
      [] f.pc = "n_detection_setting_lines" -> evr_n_detection_setting_lines(f, line)
      [] f.pc = "detection_setting" -> evr_detection_setting(f, line)
      [] f.pc = "classification" -> evr_classification(f, line)
      [] f.pc = "points" -> evr_points(f, line, cre, lo, hi)
      [] f.pc = "name" -> evr_name(f, line)

\* _parse from frame f on the lines that are left of the file
RECURSIVE RunParse(_, _, _, _, _)
RunParse(f, lines, cre, lo, hi) ==
    IF f.pc \in {"done", "failed"} THEN f
    ELSE IF lines = <<>> THEN Raise(f, "TruncatedFileError")
    ELSE RunParse(EvrStep(f, Head(lines), cre, lo, hi), Tail(lines), cre, lo, hi)

\* Region2DParser._parse(fid, convert_range_edges) on a whole file
_parse(file, cre, lo, hi) ==
    RunParse([NoFrame EXCEPT !.pc = "header"], file, cre, lo, hi)

\* Region files: a header, the region count and the region blocks
Block(metadata_line, ys) ==
    << <<>>, metadata_line, <<"0">>, <<"0">>, <<"Unclassified">>,
       PointTokens(ys, 1) \o <<"1">>, <<"Region1">> >>
Blocks ==
    {Block(RegionMetadataLine("1", "1"), <<MaxSentinel>>),
     Block(RegionMetadataLine("2", "2"), <<"5.0", MaxSentinel>>)}
FileOf(n, body) == <<<<"EVRG", "7", "10.0.270.37090">>, <<DigitTok(n)>>>> \o body
RegionFiles ==
    {FileOf(1, b) : b \in Blocks}
    \cup {FileOf(2, b1 \o b2) : b1 \in Blocks, b2 \in Blocks}
    \cup {FileOf(2, b) : b \in Blocks}

\* parse_files: _parse on the file, and its result stored when it returns.
ParseFilesEffect(file, cre) ==
    LET f == _parse(file, cre, min_depth, max_depth)
    IN  [frame |-> IF f.returned THEN [f EXCEPT !.pc = "stored"] ELSE f,
         output_data |-> IF f.returned THEN SetKey(output_data, fname, Parsed(f))
                         ELSE output_data]

ParseRegionFile ==
    /\ frame.pc = "new"
    /\ \E file \in RegionFiles, cre \in BOOLEAN :
         LET e == ParseFilesEffect(file, cre)
         IN  /\ frame' = e.frame
             /\ output_data' = e.output_data
             /\ fid' = file
             /\ convert_range_edges' = cre
             /\ call' = [op |-> "parse_files", val |-> None,
                         exc |-> e.frame.exc, ret |-> NoRet]
    /\ UNCHANGED <<format, replace_nan_range_value, min_depth, max_depth,
                   raw_range, maskVars, fileVars>>

\* utils.parse_time: the timestamp of an Echoview time string
parse_time(x) == [t |-> "datetime64", v |-> x.v]

\* The text pandas writes for a cell
CsvText(val) ==
    IF val.t = "float" THEN DigitTok(val.v \div 100) \o ".0"
    ELSE IF val.t = "datetime64" THEN "ts:" \o val.v
    ELSE val.v

\* The texts read_csv takes for floats, and their values in hundredths
IsFloatText(s) ==
    \/ s \in {MaxSentinel, MinSentinel, "9999.99"}
    \/ \E n \in 1..Len(Digits) : s = Digits[n] \o ".0"
ParseFloat(s) ==
    CASE s \in {MaxSentinel, "9999.99"} -> 999999
      [] s = MinSentinel -> -999999
      [] OTHER -> ((CHOOSE n \in 1..Len(Digits) : s = Digits[n] \o ".0") - 1) * 100

\* The rows to_csv writes for one region, one per point
RowsOf(rid, region) ==
    [p \in 1..Len(region.points) |->
        [region_id |-> rid, point_idx |-> p - 1,
         x |-> CsvText(region.points[p][1]), y |-> CsvText(region.points[p][2])]]

\* to_csv on the regions of the file: region['metadata'] of a region without
\* metadata raises KeyError; with no row at all row.keys() raises
\* AttributeError.  The rows are kept by region_id.
WriteCsv(regions) ==
    IF \E rid \in DOMAIN regions : ~(RegionKeys \subseteq DOMAIN regions[rid])
    THEN [exc |-> "KeyError", exists |-> FALSE, rows |-> EmptyDict]
    ELSE IF \A rid \in DOMAIN regions : regions[rid].points = <<>>
    THEN [exc |-> "AttributeError", exists |-> FALSE, rows |-> EmptyDict]
    ELSE [exc |-> "none", exists |-> TRUE,
          rows |-> [rid \in DOMAIN regions |-> RowsOf(rid, regions[rid])]]

NoCsv  == [exists |-> FALSE, rows |-> EmptyDict]
NoJson == [exists |-> FALSE, data |-> EmptyDict]

\* to_csv(): parses first when output_data is empty, then writes the file
\* (again, when it exists already)
ToCsv ==
    /\ frame.pc \in {"new", "failed", "stored"}
    /\ \/ /\ output_data = EmptyDict
          /\ \E file \in RegionFiles, cre \in BOOLEAN :
               LET e == ParseFilesEffect(file, cre)
                   w == IF e.output_data = EmptyDict
                        THEN [exc |-> e.frame.exc, exists |-> FALSE, rows |-> EmptyDict]
                        ELSE WriteCsv(e.output_data[fname].regions)
               IN  /\ frame' = e.frame
                   /\ output_data' = e.output_data
                   /\ fid' = file
                   /\ convert_range_edges' = cre
                   /\ csv_file' = IF w.exc = "none"
                                  THEN [exists |-> TRUE, rows |-> w.rows]
                                  ELSE csv_file
                   /\ call' = [op |-> "to_csv", val |-> None, exc |-> w.exc,
                               ret |-> NoRet]
       \/ /\ output_data # EmptyDict
          /\ LET w == WriteCsv(output_data[fname].regions)
             IN  /\ csv_file' = IF w.exc = "none"
                                THEN [exists |-> TRUE, rows |-> w.rows]
                                ELSE csv_file
                 /\ call' = [op |-> "to_csv", val |-> None, exc |-> w.exc,
                             ret |-> NoRet]
          /\ UNCHANGED <<frame, output_data, fid, convert_range_edges>>
    /\ UNCHANGED <<format, replace_nan_range_value, min_depth, max_depth,
                   raw_range, maskVars, json_file>>

\* Whether json.dump can write the points: a datetime64 is not serializable.
Serializable(regions) ==
    \A rid \in DOMAIN regions :
        "points" \in DOMAIN regions[rid] =>
            \A p \in 1..Len(regions[rid].points) :
                regions[rid].points[p][1].t # "datetime64"

\* to_json(): output_data of the file as JSON; json.load gives plain dicts
\* with the same keys, lists and values back.
ToJson ==
    /\ output_data # EmptyDict
    /\ LET ok == Serializable(output_data[fname].regions)
       IN  /\ json_file' = IF ok THEN [exists |-> TRUE, data |-> output_data[fname]]
                           ELSE json_file
           /\ call' = [op |-> "to_json", val |-> None,
                       exc |-> IF ok THEN "none" ELSE "TypeError", ret |-> NoRet]
    /\ UNCHANGED <<min_depth, max_depth, raw_range, maskVars, parseVars, csv_file>>

\* list(zip(region.x, region.y)) of the rows whose region_id is int(region):
\* x stays text, y is a float when read_csv finds the whole column numeric.
PointsFromCsv(csv, region) ==
    LET rid == DigitTok(region)
        rows == IF rid \in DOMAIN csv.rows THEN csv.rows[rid] ELSE <<>>
        numeric == \A r \in DOMAIN csv.rows :
                      \A p \in 1..Len(csv.rows[r]) : IsFloatText(csv.rows[r][p].y)
    IN  [p \in 1..Len(rows) |->
            [shape |-> "tuple", x |-> Str(rows[p].x),
             y |-> IF numeric THEN [t |-> "float", v |-> ParseFloat(rows[p].y)]
                   ELSE Str(rows[p].y)]]

\* [list(l) for l in points]
ListOfLists(points) ==
    [p \in 1..Len(points) |->
        [shape |-> "list", x |-> points[p][1], y |-> points[p][2]]]

\* p[0] = parse_time(p[0]) for p in points
ConvertTime(points) ==
    [p \in 1..Len(points) |-> <<parse_time(points[p][1]), points[p][2]>>]
Convertible(points) == \A p \in 1..Len(points) : points[p][1].t = "str"

\* The tree walk of get_points_from_region on data (the JSON file or
\* output_data[file]); in_place says that data is the parser's own
\* defaultdict, which the walk changes.
PointsFromTree(data, region, convert_time, in_place) ==
    LET rid == DigitTok(region)
        regions == data.regions
    IN  IF rid \notin DOMAIN regions
        THEN [exc |-> "KeyError", ret |-> NoRet,
              data |-> IF in_place
                       THEN [data EXCEPT !.regions = SetKey(regions, rid, EmptyDict)]
                       ELSE data]
        ELSE IF "points" \notin DOMAIN regions[rid]
        THEN [exc |-> "KeyError", ret |-> NoRet, data |-> data]
        ELSE LET points == regions[rid].points
             IN  IF ~convert_time
                 THEN [exc |-> "none", ret |-> ListOfLists(points), data |-> data]
                 ELSE IF ~Convertible(points)
                 THEN [exc |-> "FormatError", ret |-> NoRet, data |-> data]
                 ELSE [exc |-> "none", ret |-> ListOfLists(ConvertTime(points)),
                       data |-> [data EXCEPT !.regions =
                                   SetKey(regions, rid,
                                          SetKey(regions[rid], "points",
                                                 ConvertTime(points)))]]

LookupRegions == 1..MaxRegions
Sources == {"x1.csv", "x1.json", "x1"}

\* get_points_from_region(region, file, convert_time)
get_points_from_region(region, file, convert_time) ==
    IF file = "x1.csv"
    THEN IF ~csv_file.exists
         THEN [exc |-> "ValueError", ret |-> NoRet, output_data |-> output_data]
         ELSE [exc |-> "none", ret |-> PointsFromCsv(csv_file, region),
               output_data |-> output_data]
    ELSE IF file = "x1.json"
    THEN IF ~json_file.exists
         THEN [exc |-> "ValueError", ret |-> NoRet, output_data |-> output_data]
         ELSE LET r == PointsFromTree(json_file.data, region, convert_time, FALSE)
              IN  [exc |-> r.exc, ret |-> r.ret, output_data |-> output_data]
    ELSE IF file \notin DOMAIN output_data
         THEN [exc |-> "KeyError", ret |-> NoRet, output_data |-> output_data]
         ELSE LET r == PointsFromTree(output_data[file], region, convert_time, TRUE)
              IN  [exc |-> r.exc, ret |-> r.ret,
                   output_data |-> SetKey(output_data, file, r.data)]

GetPointsFromRegion ==
    /\ \E region \in LookupRegions, file \in Sources, convert_time \in BOOLEAN :
         LET r == get_points_from_region(region, file, convert_time)
         IN  /\ output_data' = r.output_data
             /\ call' = [op |-> "get_points_from_region",
                         val |-> [region |-> region, file |-> file,
                                  convert_time |-> convert_time],
                         exc |-> r.exc, ret |-> r.ret]
    /\ UNCHANGED <<format, replace_nan_range_value, convert_range_edges, fid,
                   frame, min_depth, max_depth, raw_range, maskVars, fileVars>>

---------------------------------------------------------------------------
\* Specifications

\* No parser is at work.
ParserIdle ==
    /\ format = "EVR"
    /\ replace_nan_range_value = None
    /\ convert_range_edges = FALSE
    /\ fid = <<>>
    /\ frame = NoFrame
    /\ output_data = EmptyDict

\* Nothing has been exported.
FilesInit == csv_file = NoCsv /\ json_file = NoJson

\* One parse_files call of a LineParser or of a Region2DParser
Init == ParserInit /\ ParseBounds /\ MaskIdle /\ FilesInit
Spec == Init /\ [][Next]_vars

\* The mask conversion on every raster
MaskNext == Convert2dTo3d \/ SetPlaneOnes \/ SetPlaneCell \/ Convert3dTo2d
            \/ Convert2dTo3dAgain
InitMask == MaskInit /\ DepthInit /\ ParserIdle /\ FilesInit
SpecMask == InitMask /\ [][MaskNext]_vars

\* The depth bounds of a fresh Region2DParser
DepthNext == SetMaxDepth \/ SetMinDepth \/ SetRangeEdgeFromRaw
InitDepth == DepthInit /\ MaskIdle /\ ParserIdle /\ FilesInit
SpecDepth == InitDepth /\ [][DepthNext]_vars

\* A Region2DParser that parses one region file, with its bounds set at any
\* time, its exports and its point look-ups
InitLookup == DepthInit /\ ParserIdle /\ MaskIdle /\ FilesInit
LookupNext == \/ SetMaxDepth \/ SetMinDepth \/ ParseRegionFile \/ ToCsv \/ ToJson
              \/ GetPointsFromRegion
SpecLookup == InitLookup /\ [][LookupNext]_vars

---------------------------------------------------------------------------
\* Claims

\* C1: for every labeled raster M (the all-empty raster and a raster with a
\* single distinct label included), converting M to a one-hot stack and the
\* unedited stack back gives M again, cell for cell, and raises nothing.
C1_RoundTrip2d3d2d ==
    (mask_pc = "back" /\ mask_edits = 0) =>
        (mask_exc = "none" /\ mask_2d_da = M)

C1_Witness ==
    /\ mask_pc = "back" /\ mask_edits = 0
    /\ \E c \in Cells : M[c] = NaN
    /\ Cardinality({M[c] : c \in Cells} \ {NaN}) = 1

\* C2: convert_mask_3d_to_2d of a stack in which some cell is true in two or
\* more planes raises ValueError and returns no raster.
C2_OverlapRejected ==
    (mask_pc = "back" /\ Overlap(mask_3d_ds)) =>
        (mask_exc = "ValueError" /\ mask_2d_da = NoRaster)

C2_Witness ==
    /\ mask_pc = "back" /\ Overlap(mask_3d_ds)
    /\ Len(mask_3d_ds.mask_dictionary) = 3

\* C3: a max_depth setter call with a value <= the current min_depth, and a
\* min_depth setter call with a value >= the current max_depth, raises
\* ValueError and leaves min_depth and max_depth as they were.
C3_SetterRejects ==
    [][/\ (/\ call'.op = "max_depth" /\ ~IsNone(call'.val) /\ ~IsNone(min_depth)
           /\ call'.val.v <= min_depth.v)
          => (call'.exc = "ValueError" /\ min_depth' = min_depth
                                      /\ max_depth' = max_depth)
       /\ (/\ call'.op = "min_depth" /\ ~IsNone(call'.val) /\ ~IsNone(max_depth)
           /\ call'.val.v >= max_depth.v)
          => (call'.exc = "ValueError" /\ min_depth' = min_depth
                                      /\ max_depth' = max_depth)]_vars

C3_Witness ==
    /\ call.op = "min_depth" /\ call.exc = "ValueError"
    /\ ~IsNone(max_depth) /\ ~IsNone(min_depth)
    /\ call.val.v > max_depth.v

\* C4: in every state reached from a fresh parser by min_depth setter calls,
\* max_depth setter calls and set_range_edge_from_raw calls, failed ones
\* included, min_depth < max_depth whenever both are set.
C4_BoundsOrdered ==
    (~IsNone(min_depth) /\ ~IsNone(max_depth)) => min_depth.v < max_depth.v

C4_Witness ==
    /\ call.op = "set_range_edge_from_raw" /\ call.exc = "ValueError"
    /\ raw_range.lo = raw_range.hi
    /\ ~IsNone(min_depth) /\ ~IsNone(max_depth)

\* Whether the source named by file exists and holds no region with this id
AbsentIn(file, region) ==
    LET rid == DigitTok(region)
    IN  CASE file = "x1.csv" -> csv_file.exists /\ rid \notin DOMAIN csv_file.rows
          [] file = "x1.json" ->
                json_file.exists /\ rid \notin DOMAIN json_file.data.regions
          [] OTHER -> /\ file \in DOMAIN output_data
                      /\ rid \notin DOMAIN output_data[file].regions

\* C5: get_points_from_region fails with ValueError whenever the region id is
\* absent from the source, be it an existing CSV export, an existing JSON
\* export or the in-memory parse result; it never returns an empty list then.
C5_AbsentRegionRaisesValueError ==
    \A region \in LookupRegions, file \in Sources, convert_time \in BOOLEAN :
        AbsentIn(file, region) =>
            get_points_from_region(region, file, convert_time).exc = "ValueError"

\* The three sources hold the same parse of the file, and this region of it
SameLogicalRegion(region) ==
    LET rid == DigitTok(region)
    IN  /\ fname \in DOMAIN output_data
        /\ output_data[fname] = Parsed(frame)
        /\ json_file = [exists |-> TRUE, data |-> output_data[fname]]
        /\ csv_file = [exists |-> TRUE,
                       rows |-> WriteCsv(output_data[fname].regions).rows]
        /\ rid \in DOMAIN output_data[fname].regions

\* C6: for the same region of the same parsed file, get_points_from_region
\* returns the same sequence from the CSV export, the JSON export and the
\* in-memory result: same length, same order, pairs of the same shape and
\* the same values.
C6_SourcesEquivalent ==
    \A region \in LookupRegions, convert_time \in BOOLEAN :
        SameLogicalRegion(region) =>
            LET csv == get_points_from_region(region, "x1.csv", convert_time)
                json == get_points_from_region(region, "x1.json", convert_time)
                parsed == get_points_from_region(region, "x1", convert_time)
            IN  /\ csv.exc = "none" /\ json.exc = "none" /\ parsed.exc = "none"
                /\ csv.ret = json.ret
                /\ json.ret = parsed.ret

\* C7: once a parse has completed, no later operation on the parser changes
\* the records it produced: neither the depth-bound setters nor
\* get_points_from_region on the in-memory result, whatever convert_time and
\* whether the region id is present or absent.
C7_ParsedRecordsImmutable ==
    [][(output_data # EmptyDict) =>
          (DOMAIN output_data' = DOMAIN output_data
           /\ output_data'[fname] = output_data[fname])]_vars

\* C8: after a successful region-file parse, every region of the result has
\* as many points as the point_count of its metadata says.
C8_PointCountMatches ==
    (format = "EVR" /\ output_data # EmptyDict) =>
        \A rid \in DOMAIN output_data[fname].regions :
            LET region == output_data[fname].regions[rid]
            IN  /\ IsInt(region.metadata.point_count)
                /\ Len(region.points) = ToInt(region.metadata.point_count)

\* C9: in a line-file parse the depth of a point is the replacement value
\* exactly when one was supplied (anything but None, 0 included) and the
\* depth token is '-10000.990000' letter for letter; otherwise it is the
\* token itself; and the i-th point always has the timestamp D{date}T{time}
\* and the status of the i-th point record of the file.
PointOfRecord(rec, repl) ==
    [x |-> "D" \o rec[1] \o "T" \o rec[2],
     y |-> IF repl # None /\ rec[3] = "-10000.990000" THEN repl
           ELSE [t |-> "str", v |-> rec[3]],
     status |-> rec[4]]

C9_DepthReplacedExactlyAtSentinel ==
    format = "EVL" =>
        /\ \A i \in 1..Len(frame.points) :
              frame.points[i] = PointOfRecord(fid[i + 2], replace_nan_range_value)
        /\ output_data # EmptyDict =>
              /\ Len(output_data[fname].points) = Len(fid) - 2
              /\ \A i \in 1..Len(output_data[fname].points) :
                    output_data[fname].points[i]
                        = PointOfRecord(fid[i + 2], replace_nan_range_value)

C9_Witness ==
    /\ format = "EVL" /\ output_data # EmptyDict
    /\ replace_nan_range_value = Num(0)
    /\ Len(fid) = 4
    /\ fid[3][3] = "-10000.990000" /\ output_data[fname].points[1].y = Num(0)
    /\ fid[4][3] = "-10000.99" /\ output_data[fname].points[2].y = Str("-10000.99")

\* C10: a parse of a line file or a region file that fails at any record
\* raises and exposes nothing: _parse returns only after it has read as many
\* points or region blocks as the file declares, output_data holds nothing
\* of the file before that, and then holds exactly what _parse returned.
Complete(f) ==
    /\ f.exc = "none"
    /\ IsInt(Join(fid[2])) /\ f.n = ToInt(Join(fid[2]))
    /\ format = "EVL" => Len(f.points) = f.n
    /\ format = "EVR" =>
          /\ f.r = f.n
          /\ \A rid \in DOMAIN f.regions :
                /\ DOMAIN f.regions[rid] = RegionKeys
                /\ {"type", "name", "region_classification"}
                      \subseteq DOMAIN f.regions[rid].metadata

C10_NoPartialResult ==
    /\ frame.pc = "failed" => (~frame.returned /\ frame.exc # "none")
    /\ frame.returned => Complete(frame)
    /\ ~frame.returned => output_data = EmptyDict
    /\ output_data # EmptyDict =>
          (DOMAIN output_data = {fname} /\ output_data[fname] = Parsed(frame))

C10_Witness ==
    /\ format = "EVR" /\ frame.pc = "failed"
    /\ frame.exc = "TruncatedFileError"
    /\ frame.n = 2 /\ frame.r = 1
    /\ "points" \in DOMAIN frame.regions[frame.rid]
    /\ output_data = EmptyDict

\* The first cell of R, in row-major order, that holds label
FirstCell(R, label) == CHOOSE c \in Cells : R[c] = label /\ \A d \in 1..(c - 1) : R[d] # label

FirstTrue(plane) == CHOOSE c \in Cells : plane[c] /\ \A d \in 1..(c - 1) : ~plane[d]

\* A stack as convert_mask_2d_to_3d builds them: no label and one all-false
\* plane, or labels whose planes are each true somewhere, in the order of
\* their first true cells
InImage(S) ==
    \/ S.mask_dictionary = <<>> /\ S.mask_3d = <<AllFalse>>
    \/ /\ Len(S.mask_dictionary) > 0
       /\ \A i \in 1..Len(S.mask_dictionary) : S.mask_3d[i] # AllFalse
       /\ \A i, j \in 1..Len(S.mask_dictionary) :
             i < j => FirstTrue(S.mask_3d[i]) < FirstTrue(S.mask_3d[j])

C13_BoundsFromProfile ==
    [][(call'.op = "set_range_edge_from_raw" /\ call'.val # None) =>
          IF call'.val = Str("x.raw")
          THEN raw_range'.lo.v < raw_range'.hi.v =>
                  /\ call'.exc = "none"
                  /\ min_depth' = raw_range'.lo
                  /\ max_depth' = raw_range'.hi
          ELSE /\ call'.exc = "ValueError"
               /\ min_depth' = min_depth
               /\ max_depth' = max_depth]_vars

\* This step of _parse has read a points line of 3k+1 tokens
ReadsPointsLine ==
    frame.pc = "points" /\ Len(fid') = Len(fid) + 1 /\ Len(Last(fid')) % 3 = 1

\* C14 (as stated): for a points line of 3k+1 tokens the region's type is the
\* trailing token and its points are exactly k, point i being
\* (D{token 3i}T{token 3i+1}, token 3i+2) in the order of the line.
C14_PointsAreTheTokens ==
    [][ReadsPointsLine =>
          LET line == Last(fid')
              k == (Len(line) - 1) \div 3
              region == frame'.regions[frame.rid]
          IN  /\ frame'.pc = "name"
              /\ region.metadata.type = Last(line)
              /\ Len(region.points) = k
              /\ \A i \in 1..k :
                    region.points[i] =
                        <<Str("D" \o line[3 * i - 2] \o "T" \o line[3 * i - 1]),
                          Str(line[3 * i])>>]_vars

\* C14 (amended): for a points line of 3k+1 tokens the region's type is the
\* trailing token and its points are exactly k, in the order of the line;
\* point i has the timestamp D{token 3i}T{token 3i+1}, and its depth is token
\* 3i+2 unless range-edge substitution is requested and the token is a
\* range-edge sentinel, when it may be the float of a depth bound instead.
\* The trailing token is part of no point.
C14_PointsLineGrouping ==
    [][ReadsPointsLine =>
          LET line == Last(fid')
              k == (Len(line) - 1) \div 3
              region == frame'.regions[frame.rid]
          IN  /\ frame'.pc = "name" /\ frame'.exc = "none"
              /\ region.metadata.type = Last(line)
              /\ Len(region.points) = k
              /\ \A i \in 1..k :
                    /\ region.points[i][1]
                          = Str("D" \o line[3 * i - 2] \o "T" \o line[3 * i - 1])
                    /\ \/ region.points[i][2] = Str(line[3 * i])
                       \/ /\ convert_range_edges
                          /\ line[3 * i] \in {MaxSentinel, MinSentinel}
                          /\ region.points[i][2].t = "float"]_vars

C14_Witness ==
    /\ format = "EVR" /\ frame.pc = "name"
    /\ Len(Last(fid)) = 7 /\ Last(Last(fid)) = "1"
    /\ frame.regions[frame.rid].metadata.type = "1"
    /\ Len(frame.regions[frame.rid].points) = 2
    /\ frame.regions[frame.rid].points[1][2] = Str("5.0")
    /\ frame.regions[frame.rid].points[2][2].t = "float"

\* The depth the claim gives a point whose depth token is tok
DepthOfToken(tok) ==
    IF convert_range_edges /\ tok = "9999.9900000000" /\ max_depth # None
    THEN [t |-> "float", v |-> 100 * max_depth.v]
    ELSE IF convert_range_edges /\ tok = "-9999.9900000000" /\ min_depth # None
    THEN [t |-> "float", v |-> 100 * min_depth.v]
    ELSE [t |-> "str", v |-> tok]

\* C15: in a region-file parse the depth of a point is float(max_depth)
\* exactly when substitution is requested, its token is '9999.9900000000'
\* letter for letter and max_depth is set, and float(min_depth) exactly when
\* substitution is requested, its token is '-9999.9900000000' and min_depth
\* is set; otherwise it is the token as a string and nothing is raised; the
\* timestamp and the position of the point are those of the line either way.
C15_RangeEdgeSubstitution ==
    [][(frame.pc = "points" /\ Len(fid') = Len(fid) + 1
        /\ Len(Last(fid')) % 3 = 1) =>
          LET line == Last(fid')
              points == frame'.regions[frame.rid].points
          IN  /\ frame'.exc = "none"
              /\ Len(points) = (Len(line) - 1) \div 3
              /\ \A i \in 1..Len(points) :
                    /\ points[i][2] = DepthOfToken(line[3 * i])
                    /\ points[i][1].v = "D" \o line[3 * i - 2] \o "T" \o line[3 * i - 1]
                    /\ points[i][2].t = "float" <=>
                          /\ convert_range_edges
                          /\ \/ line[3 * i] = MaxSentinel /\ max_depth # None
                             \/ line[3 * i] = MinSentinel /\ min_depth # None]_vars

C15_Witness ==
    /\ format = "EVR" /\ frame.pc = "name" /\ convert_range_edges
    /\ min_depth = Num(1) /\ max_depth = Num(MaxDepthVal)
    /\ Len(Last(fid)) = 7
    /\ Last(fid)[3] = MinSentinel /\ Last(fid)[6] = "9999.99"
    /\ frame.regions[frame.rid].points[1][2] = [t |-> "float", v |-> 100]
    /\ frame.regions[frame.rid].points[2][2] = Str("9999.99")

=============================================================================
